---- MODULE Spec2Model ----
(***************************************************************************)
(* Hybrid A* search of hybrid_astar.py (class HybridAstar, class Node).    *)
(*                                                                         *)
(* Poses live on an integer lattice: x, y in 0..MapSize, heading theta in  *)
(* 0..NumHeadings-1 (units of a 1/NumHeadings turn).  Costs are fixed      *)
(* point numbers with denominator Scale, so that the weights w1..w4 and    *)
(* the arc length are integers.  The collaborators that hybrid_astar.py    *)
(* imports (car, grid, astar, dubins_path, utils) are modelled from the    *)
(* specification on the same lattice.                                      *)
(***************************************************************************)
EXTENDS Integers, Sequences, FiniteSets, TLC

VARIABLES car, grid, check_dubins, heu, extra, hastar,
          nodes, open_, closed_, count, best, shot, children, pc, result

vars == <<car, grid, check_dubins, heu, extra, hastar,
          nodes, open_, closed_, count, best, shot, children, pc, result>>

----------------------------------------------------------------------------
(* Bounds of the model and program constants.                              *)

\* side of the square workspace: lattice coordinates are 0..MapSize
MapSize == 10
\* Grid.cell_size, in lattice units
CellSize == 2
\* the planner is checked with check_dubins in 1..MaxCheckDubins
MaxCheckDubins == 2

\* unit_theta, in heading units
UnitTheta == 2
\* dt, the length of one integration sub-step, in lattice units
Dt == 1
\* n of best_final_shot
FinalShotN == 10
\* w1..w4 as hundredths
W1 == 95
W2 == 5
W3 == 40
W4 == 20
\* denominator of the fixed point costs g, g_, f
Scale == 100
\* SimpleCar.l, the wheel base
CarL == 1

Abs(a) == IF a < 0 THEN -a ELSE a
Min(a, b) == IF a <= b THEN a ELSE b
Sign(a) == IF a < 0 THEN -1 ELSE IF a > 0 THEN 1 ELSE 0

\* int(sqrt(a)) for a >= 0
Isqrt(a) == CHOOSE s \in 0..a : s * s <= a /\ (s + 1) * (s + 1) > a

\* displacement of one sub-step at each heading (cos, sin on the lattice)
DirX == <<1, 1, 0, -1, -1, -1, 0, 1>>
DirY == <<0, 1, 1, 1, 0, -1, -1, -1>>
NumHeadings == Len(DirX)

\* tan(phi) for phi in eighths of a turn: tan(pi/4) = 1, tan(3pi/4) = -1
Tan(phi) ==
    LET a == phi % (NumHeadings \div 2)
    IN  IF a = 0 THEN 0 ELSE IF a = 1 THEN 1 ELSE IF a = 3 THEN -1 ELSE 0

----------------------------------------------------------------------------
(* Environment: obstacles are rectangles <<x, y, w, h>>.                   *)

InBounds(pt) == pt[1] \in 0..MapSize /\ pt[2] \in 0..MapSize

InRect(pt, ob) ==
    /\ ob[1] <= pt[1] /\ pt[1] <= ob[1] + ob[3]
    /\ ob[2] <= pt[2] /\ pt[2] <= ob[2] + ob[4]

\* Environment.isCollision for the footprint of a pose (a lattice point)
IsCollision(obs, pt) ==
    \/ ~InBounds(pt)
    \/ \E i \in 1..Len(obs) : InRect(pt, obs[i])

----------------------------------------------------------------------------
(* SimpleCar.                                                              *)

\* car.step(pos, phi): one sub-step of the bicycle model at unit speed
Step(pos, phi) ==
    <<pos[1] + Dt * DirX[pos[3] + 1],
      pos[2] + Dt * DirY[pos[3] + 1],
      (pos[3] + Dt * (Tan(phi) \div CarL)) % NumHeadings>>

\* car.get_params(pos, phi): direction and radius of the turn (the centre
\* has no counterpart on the lattice)
GetParams(pos, phi) == [d |-> Sign(phi), r |-> CarL \div Tan(Abs(phi))]

----------------------------------------------------------------------------
(* Grid.                                                                   *)

\* number of cells per side, int(lx / cell_size)
GridN(g) == g.lx \div g.cell_size

\* grid.to_cell_id(pt), clamped to the last cell
ToCellId(g, pt) ==
    <<Min(pt[1] \div g.cell_size, GridN(g) - 1),
      Min(pt[2] \div g.cell_size, GridN(g) - 1)>>

\* a cell is an obstacle cell when an obstacle overlaps it
IsObstacleCell(g, c) ==
    \E i \in 1..Len(g.obs) :
        LET ob == g.obs[i]
        IN  /\ ob[1] < (c[1] + 1) * g.cell_size /\ ob[1] + ob[3] > c[1] * g.cell_size
            /\ ob[2] < (c[2] + 1) * g.cell_size /\ ob[2] + ob[4] > c[2] * g.cell_size

----------------------------------------------------------------------------
(* utils: heading buckets.                                                 *)

\* get_discretized_thetas(unit_theta): 0, unit, 2*unit, ... while the next
\* value does not exceed a full turn minus unit
RECURSIVE DiscretizedThetasFrom(_, _)
DiscretizedThetasFrom(acc, unit) ==
    LET theta == acc[Len(acc)] + unit
    IN  IF theta > NumHeadings - unit THEN acc
        ELSE DiscretizedThetasFrom(Append(acc, theta), unit)

GetDiscretizedThetas(unit) == DiscretizedThetasFrom(<<0>>, unit)

\* round_theta(theta, thetas): the first value of thetas closest to theta
RoundTheta(theta, thetas) ==
    LET i == CHOOSE i \in 1..Len(thetas) :
                /\ \A j \in 1..Len(thetas) :
                       Abs(thetas[i] - theta) <= Abs(thetas[j] - theta)
                /\ \A j \in 1..(i - 1) :
                       Abs(thetas[j] - theta) > Abs(thetas[i] - theta)
    IN  thetas[i]

----------------------------------------------------------------------------
(* Astar: shortest distance on the cell graph to the goal cell.            *)

CellNeighbours(g, c) ==
    {n \in {<<c[1] + 1, c[2]>>, <<c[1] - 1, c[2]>>,
            <<c[1], c[2] + 1>>, <<c[1], c[2] - 1>>} :
        /\ n[1] \in 0..(GridN(g) - 1) /\ n[2] \in 0..(GridN(g) - 1)
        /\ ~IsObstacleCell(g, n)}

RECURSIVE GridBfs(_, _, _, _, _)
GridBfs(g, frontier, seen, goalCell, d) ==
    IF goalCell \in frontier THEN d
    ELSE IF frontier = {} THEN GridN(g) * GridN(g)
    ELSE LET next == (UNION {CellNeighbours(g, c) : c \in frontier}) \ seen
         IN  GridBfs(g, next, seen \cup next, goalCell, d + 1)

\* astar.search_path(pt): distance in cells from the cell of pt to the goal
\* cell; the number of cells when the goal cell cannot be reached
DistanceToGoal(g, goalPt, pt) ==
    LET c == ToCellId(g, pt)
    IN  GridBfs(g, {c}, {c}, ToCellId(g, goalPt), 0)

----------------------------------------------------------------------------
(* DubinsPath: route safety and the direct connection to the goal.         *)

\* the poses visited by n sub-steps under steering phi, the first included
RECURSIVE Drive(_, _, _)
Drive(pos, phi, n) ==
    IF n <= 0 THEN <<pos>> ELSE <<pos>> \o Drive(Step(pos, phi), phi, n - 1)

AllFree(obs, poses) ==
    \A i \in 1..Len(poses) : ~IsCollision(obs, <<poses[i][1], poses[i][2]>>)

\* dubins.is_straight_route_safe(a, b): the samples of the segment a..b
IsStraightRouteSafe(c, a, b) ==
    LET n == IF Abs(b[1] - a[1]) >= Abs(b[2] - a[2])
             THEN Abs(b[1] - a[1]) ELSE Abs(b[2] - a[2])
    IN  /\ AllFree(c.obs, Drive(a, 0, n \div Dt))
        /\ ~IsCollision(c.obs, <<b[1], b[2]>>)

\* the samples of the arc from a that turns in direction d with radius r,
\* up to the pose b
RECURSIVE ArcSamples(_, _, _, _, _)
ArcSamples(a, b, d, r, fuel) ==
    IF a = b \/ fuel = 0 THEN <<a>>
    ELSE <<a>> \o ArcSamples(
            <<a[1] + Dt * DirX[a[3] + 1], a[2] + Dt * DirY[a[3] + 1],
              (a[3] + Dt * d * (CarL \div r)) % NumHeadings>>, b, d, r, fuel - 1)

\* dubins.is_turning_route_safe(a, b, d, c, r)
IsTurningRouteSafe(c, a, b, d, r) ==
    /\ AllFree(c.obs, ArcSamples(a, b, d, r, NumHeadings))
    /\ ~IsCollision(c.obs, <<b[1], b[2]>>)

\* dubins.find_tangents(pos, goal): the turn-straight-turn connections
\* from pos to goal; n1, n2 count the sub-steps of the two turns, s those
\* of the straight part, d1, d2 are the directions of the turns
FindTangents(c, pos, goal) ==
    LET Turn(p, d, n) == LET w == Drive(p, d * c.max_phi, n) IN w[Len(w)]
        turns == {t \in {-1, 1} \X (0..(NumHeadings - 1)) :
                     t[2] = 0 => t[1] = -1}
        Straight(t1) ==
            LET p1 == Turn(pos, t1[1], t1[2])
            IN  UNION {
                  LET e == Turn(<<0, 0, p1[3]>>, t2[1], t2[2])
                  IN  IF e[3] # goal[3] THEN {}
                      ELSE {[d1 |-> t1[1], n1 |-> t1[2], s |-> s,
                             d2 |-> t2[1], n2 |-> t2[2]] :
                               s \in {s \in 0..MapSize :
                                   /\ p1[1] + s * Dt * DirX[p1[3] + 1] + e[1] = goal[1]
                                   /\ p1[2] + s * Dt * DirY[p1[3] + 1] + e[2] = goal[2]}}
                  : t2 \in {t \in turns :
                              (p1[3] + t[1] * t[2] * (Tan(c.max_phi) \div CarL))
                                  % NumHeadings = goal[3]}}
    IN  UNION {Straight(t1) : t1 \in turns}

\* the poses along a connection
TangentSamples(c, pos, sol) ==
    LET w1 == Drive(pos, sol.d1 * c.max_phi, sol.n1)
        w2 == Drive(w1[Len(w1)], 0, sol.s)
        w3 == Drive(w2[Len(w2)], sol.d2 * c.max_phi, sol.n2)
    IN  w1 \o w2 \o w3

TangentCost(sol) == (sol.n1 + sol.s + sol.n2) * Dt * Scale

\* the order in which best_tangent prefers connections: shorter first
TangentKey(sol) ==
    (((TangentCost(sol) * NumHeadings + sol.n1) * 4 + (sol.d1 + 1)) * 4)
        + (sol.d2 + 1)

\* the (d_route, cost, valid) of best_tangent when no connection is safe
NoShot == [d_route |-> <<>>, cost |-> 0, valid |-> FALSE]

\* dubins.best_tangent(solutions): the shortest collision-free connection
BestTangent(c, pos, solutions) ==
    LET ok == {sol \in solutions : AllFree(c.obs, TangentSamples(c, pos, sol))}
    IN  IF ok = {} THEN NoShot
        ELSE LET b == CHOOSE b \in ok :
                          \A o \in ok : TangentKey(b) <= TangentKey(o)
             IN  [d_route |-> <<b>>, cost |-> TangentCost(b), valid |-> TRUE]

\* the connection as it would be if it were sought from the start pose
ShotFromStart(c, pos) ==
    BestTangent(c, c.start_pos, FindTangents(c, c.start_pos, c.end_pos))

\* find_tangents followed by best_tangent, as every caller does
Shot(c, pos) == BestTangent(c, pos, FindTangents(c, pos, c.end_pos))

----------------------------------------------------------------------------
(* class Node, and the list operations that compare nodes with Node.__eq__ *)

\* Node.__init__(grid_pos, pos); parent 0 stands for None
Node(grid_pos, pos) ==
    [grid_pos |-> grid_pos, pos |-> pos, g |-> 0, g_ |-> 0, f |-> 0,
     parent |-> 0, phi |-> 0]

\* Node.__eq__ as it would be if it compared the continuous poses
NodeEqByPose(a, b) == a.pos = b.pos

\* Node.__eq__: two nodes are equal when their grid_pos are
NodeEq(a, b) == a.grid_pos = b.grid_pos

\* node in list
Contains(ns, list, n) == \E i \in 1..Len(list) : NodeEq(ns[list[i]], n)

\* list.index(node): the first position holding an equal node
IndexOf(ns, list, n) ==
    CHOOSE i \in 1..Len(list) :
        /\ NodeEq(ns[list[i]], n)
        /\ \A j \in 1..(i - 1) : ~NodeEq(ns[list[j]], n)

\* list.remove(node): drops the first equal node
Remove(ns, list, n) ==
    LET i == IndexOf(ns, list, n)
    IN  SubSeq(list, 1, i - 1) \o SubSeq(list, i + 1, Len(list))

\* min(open_, ...) as it would be if the last entry of least f were taken
MinByFLast(ns, list) ==
    LET i == CHOOSE i \in 1..Len(list) :
                /\ \A j \in 1..Len(list) : ns[list[i]].f <= ns[list[j]].f
                /\ \A j \in (i + 1)..Len(list) : ns[list[j]].f > ns[list[i]].f
    IN  list[i]

\* min(open_, key=lambda x: x.f): the first entry of least f
MinByF(ns, list) ==
    LET i == CHOOSE i \in 1..Len(list) :
                /\ \A j \in 1..Len(list) : ns[list[i]].f <= ns[list[j]].f
                /\ \A j \in 1..(i - 1) : ns[list[j]].f > ns[list[i]].f
    IN  list[i]

\* open_.sort(key=lambda x: x.f): stable, ascending
RECURSIVE SortByF(_, _)
SortByF(ns, list) ==
    IF list = <<>> THEN <<>>
    ELSE LET m == MinByF(ns, list)
             i == CHOOSE i \in 1..Len(list) :
                      list[i] = m /\ \A j \in 1..(i - 1) : list[j] # m
         IN  <<m>> \o SortByF(ns, SubSeq(list, 1, i - 1)
                                    \o SubSeq(list, i + 1, Len(list)))

----------------------------------------------------------------------------
(* class HybridAstar.                                                      *)

\* HybridAstar.__init__(car, grid, unit_theta, dt, check_dubins)
HybridAstarInit(c, g, unit_theta, dt, k) ==
    LET drive_steps == Isqrt((2 * g.cell_size * g.cell_size) \div (dt * dt)) + 1
    IN  [car |-> c, grid |-> g, unit_theta |-> unit_theta, dt |-> dt,
         check_dubins |-> k,
         start |-> c.start_pos, goal |-> c.end_pos,
         r |-> CarL \div Tan(c.max_phi),
         drive_steps |-> drive_steps,
         arc |-> drive_steps * dt * Scale,
         phil |-> <<-c.max_phi, 0, c.max_phi>>,
         w1 |-> W1, w2 |-> W2, w3 |-> W3, w4 |-> W4,
         thetas |-> GetDiscretizedThetas(unit_theta)]

\* construct_node(pos)
ConstructNode(h, pos) ==
    LET theta   == RoundTheta(pos[3] % NumHeadings, h.thetas)
        cell_id == ToCellId(h.grid, <<pos[1], pos[2]>>)
    IN  Node(cell_id \o <<theta>>, pos)

\* simple_heuristic(pos) as it would be with the larger of the two offsets
SimpleHeuristicChebyshev(h, pos) ==
    (IF Abs(h.goal[1] - pos[1]) >= Abs(h.goal[2] - pos[2])
     THEN Abs(h.goal[1] - pos[1]) ELSE Abs(h.goal[2] - pos[2])) * Scale

\* simple_heuristic(pos)
SimpleHeuristic(h, pos) ==
    (Abs(h.goal[1] - pos[1]) + Abs(h.goal[2] - pos[2])) * Scale

\* astar_heuristic(pos)
AstarHeuristic(h, pos) ==
    LET h1 == DistanceToGoal(h.grid, h.goal, pos) * h.grid.cell_size * Scale
        h2 == SimpleHeuristic(h, pos)
    IN  (h.w1 * h1 + h.w2 * h2) \div Scale

\* the heuristic that search_path and get_children add to g
Heuristic(h, mode, pos) ==
    IF mode = 0 THEN SimpleHeuristic(h, pos) ELSE AstarHeuristic(h, pos)

\* the safety check of get_children for the arc from pos to its end
ArcSafe(h, pos, phi, end) ==
    IF phi = 0 THEN IsStraightRouteSafe(h.car, pos, end)
    ELSE LET p == GetParams(pos, phi)
         IN  IsTurningRouteSafe(h.car, pos, end, p.d, p.r)

\* the end pose of the arc of get_children under steering phi
ArcEnd(h, pos, phi) ==
    LET w == Drive(pos, phi, h.drive_steps) IN w[Len(w)]

\* the child of get_children as it would be if g_ were taken from the
\* parent's g
ChildLengthFromG(h, ns, id, phi, mode, ext) ==
    LET node == ns[id]
        c0   == ConstructNode(h, ArcEnd(h, node.pos, phi))
        g0   == node.g + h.arc
        g1   == IF ext /\ phi # node.phi
                THEN g0 + (h.w3 * h.arc) \div Scale ELSE g0
        g2   == IF ext /\ phi # 0
                THEN g1 + (h.w4 * h.arc) \div Scale ELSE g1
    IN  [c0 EXCEPT !.phi = phi, !.parent = id, !.g = g2,
                   !.g_ = node.g + h.arc,
                   !.f = g2 + Heuristic(h, mode, c0.pos)]

\* the child of get_children as it would be if the change of steering were
\* told by `phi != 0` instead of `phi != node.phi`
ChildSteeringChangeFromZero(h, ns, id, phi, mode, ext) ==
    LET node == ns[id]
        c0   == ConstructNode(h, ArcEnd(h, node.pos, phi))
        g0   == node.g + h.arc
        g1   == IF ext /\ phi # 0
                THEN g0 + (h.w3 * h.arc) \div Scale ELSE g0
        g2   == IF ext /\ phi # 0
                THEN g1 + (h.w4 * h.arc) \div Scale ELSE g1
    IN  [c0 EXCEPT !.phi = phi, !.parent = id, !.g = g2,
                   !.g_ = node.g_ + h.arc,
                   !.f = g2 + Heuristic(h, mode, c0.pos)]

\* the child that get_children builds for steering phi
Child(h, ns, id, phi, mode, ext) ==
    LET node == ns[id]
        c0   == ConstructNode(h, ArcEnd(h, node.pos, phi))
        g0   == node.g + h.arc
        g1   == IF ext /\ phi # node.phi
                THEN g0 + (h.w3 * h.arc) \div Scale ELSE g0
        g2   == IF ext /\ phi # 0
                THEN g1 + (h.w4 * h.arc) \div Scale ELSE g1
    IN  [c0 EXCEPT !.phi = phi, !.parent = id, !.g = g2,
                   !.g_ = node.g_ + h.arc,
                   !.f = g2 + Heuristic(h, mode, c0.pos)]

\* get_children as it would be without `if not safe: continue`
RECURSIVE GetChildrenFromUnchecked(_, _, _, _, _, _)
GetChildrenFromUnchecked(h, ns, id, mode, ext, i) ==
    IF i > Len(h.phil) THEN <<>>
    ELSE <<Child(h, ns, id, h.phil[i], mode, ext)>>
             \o GetChildrenFromUnchecked(h, ns, id, mode, ext, i + 1)

\* get_children(node, heu, extra): the children of the safe arcs, in the
\* order of phil
RECURSIVE GetChildrenFrom(_, _, _, _, _, _)
GetChildrenFrom(h, ns, id, mode, ext, i) ==
    IF i > Len(h.phil) THEN <<>>
    ELSE LET phi  == h.phil[i]
             rest == GetChildrenFrom(h, ns, id, mode, ext, i + 1)
         IN  IF ArcSafe(h, ns[id].pos, phi, ArcEnd(h, ns[id].pos, phi))
             THEN <<Child(h, ns, id, phi, mode, ext)>> \o rest
             ELSE rest

GetChildren(h, ns, id, mode, ext) == GetChildrenFrom(h, ns, id, mode, ext, 1)

\* the loop of best_final_shot as it would be if the shortcut lengths alone
\* were compared
RECURSIVE FinalShotScanCostOnly(_, _, _, _, _, _)
FinalShotScanCostOnly(ns, sorted, shots, t, limit, acc) ==
    IF t > limit THEN acc
    ELSE LET best_ == sorted[t]
             next  == IF shots[t].valid /\ shots[t].cost < acc.cost
                      THEN [best |-> best_, cost |-> shots[t].cost,
                            d_route |-> shots[t].d_route]
                      ELSE acc
         IN  FinalShotScanCostOnly(ns, sorted, shots, t + 1, limit, next)

\* the loop of best_final_shot over the first `limit` entries of the sorted
\* open list; shots[t] is the (d_route_, cost_, valid_) found for entry t and
\* acc is (best, cost, d_route)
RECURSIVE FinalShotScan(_, _, _, _, _, _)
FinalShotScan(ns, sorted, shots, t, limit, acc) ==
    IF t > limit THEN acc
    ELSE LET best_ == sorted[t]
             next  == IF shots[t].valid /\ shots[t].cost + ns[best_].g_
                                               < acc.cost + ns[acc.best].g_
                      THEN [best |-> best_, cost |-> shots[t].cost,
                            d_route |-> shots[t].d_route]
                      ELSE acc
         IN  FinalShotScan(ns, sorted, shots, t + 1, limit, next)

\* best_final_shot(open_, closed_, best, cost, d_route, n)
BestFinalShot(h, ns, op, cl, b, cost, d_route, n) ==
    LET sorted == SortByF(ns, op)
        limit  == Min(n, Len(sorted))
        shots  == [t \in 1..limit |-> Shot(h.car, ns[sorted[t]].pos)]
        acc    == FinalShotScan(ns, sorted, shots, 1, limit,
                                [best |-> b, cost |-> cost, d_route |-> d_route])
        moved  == Contains(ns, sorted, ns[acc.best])
    IN  [open_   |-> IF moved THEN Remove(ns, sorted, ns[acc.best]) ELSE sorted,
         closed_ |-> IF moved THEN Append(cl, acc.best) ELSE cl,
         best    |-> acc.best, cost |-> acc.cost, d_route |-> acc.d_route]

\* the body of `for child in children` without its test `child in closed_`
AdmitChildNoClosedTest(ns, op, cl, id) ==
    IF ~Contains(ns, op, ns[id]) THEN Append(op, id)
    ELSE IF ns[id].g < ns[op[IndexOf(ns, op, ns[id])]].g
         THEN Append(Remove(ns, op, ns[id]), id)
    ELSE op

\* the body of `for child in children` as it would be with `<=` in the test
\* of the two g
AdmitChildReplaceOnEqual(ns, op, cl, id) ==
    IF Contains(ns, cl, ns[id]) THEN op
    ELSE IF ~Contains(ns, op, ns[id]) THEN Append(op, id)
    ELSE IF ns[id].g <= ns[op[IndexOf(ns, op, ns[id])]].g
         THEN Append(Remove(ns, op, ns[id]), id)
    ELSE op

\* the body of `for child in children`: open_ after the child ns[id] has been
\* looked at
AdmitChild(ns, op, cl, id) ==
    IF Contains(ns, cl, ns[id]) THEN op
    ELSE IF ~Contains(ns, op, ns[id]) THEN Append(op, id)
    ELSE IF ns[id].g < ns[op[IndexOf(ns, op, ns[id])]].g
         THEN Append(Remove(ns, op, ns[id]), id)
    ELSE op

\* backtracking(node) as it would be with `while node:`, the root included
RECURSIVE BacktrackingWithRoot(_, _)
BacktrackingWithRoot(ns, id) ==
    IF id = 0 THEN <<>>
    ELSE Append(BacktrackingWithRoot(ns, ns[id].parent),
                <<ns[id].pos, ns[id].phi>>)

\* the test of the shortcut check as it would be if count were only
\* incremented after it, the iterations counted from 0
CheckDueFromZero(h, cnt) == (cnt - 1) % h.check_dubins = 0

\* `count % self.check_dubins == 0`
CheckDue(h, cnt) == cnt % h.check_dubins = 0

\* backtracking(node) as it would be without `reversed`
RECURSIVE BacktrackingUnreversed(_, _)
BacktrackingUnreversed(ns, id) ==
    IF ns[id].parent = 0 THEN <<>>
    ELSE <<<<ns[id].pos, ns[id].phi>>>>
             \o BacktrackingUnreversed(ns, ns[id].parent)

\* backtracking(node): the (pos, phi) pairs of the parent chain, root first,
\* the root itself left out
RECURSIVE Backtracking(_, _)
Backtracking(ns, id) ==
    IF ns[id].parent = 0 THEN <<>>
    ELSE Append(Backtracking(ns, ns[id].parent), <<ns[id].pos, ns[id].phi>>)

----------------------------------------------------------------------------
(* The inputs of a run.                                                    *)

\* obstacle layouts, each a list of rectangles <<x, y, w, h>>:
\* none; a wall with a gap at the top; a closed ring around (5, 5); a short
\* bar in the middle of the map; a pocket around (5, 1) that is open to the
\* top only
Layouts ==
    {<<>>,
     <<<<3, 0, 0, 4>>>>,
     <<<<4, 4, 2, 0>>, <<4, 6, 2, 0>>, <<4, 4, 0, 2>>, <<6, 4, 0, 2>>>>,
     <<<<2, 3, 2, 0>>>>,
     <<<<4, 0, 2, 0>>, <<4, 1, 0, 0>>, <<6, 1, 0, 0>>>>}

StartPoses == {<<1, 1, 0>>, <<5, 5, 0>>, <<0, 6, 7>>, <<5, 3, 6>>, <<7, 3, 0>>,
               <<7, 9, 6>>}
GoalPoses  == {<<5, 5, 0>>, <<5, 1, 6>>}

\* max_phi in eighths of a turn: 1 is pi/4; 3 is 3*pi/4, beyond pi/2
MaxPhis == {1, 3}

NoResult == [kind |-> "running", route |-> <<>>, d_route |-> <<>>,
             cost |-> 0, best |-> 0]

Init ==
    /\ \E sp \in StartPoses, gp \in GoalPoses, obs \in Layouts, mp \in MaxPhis :
          /\ ~IsCollision(obs, <<sp[1], sp[2]>>)
          /\ car = [start_pos |-> sp, end_pos |-> gp, max_phi |-> mp, obs |-> obs]
          /\ grid = [cell_size |-> CellSize, lx |-> MapSize, obs |-> obs]
    /\ check_dubins \in 1..MaxCheckDubins
    /\ heu \in {0, 1}
    /\ extra \in BOOLEAN
    /\ hastar = [built |-> FALSE]
    /\ nodes = <<>>
    /\ open_ = <<>>
    /\ closed_ = <<>>
    /\ count = 0
    /\ best = 0
    /\ shot = NoShot
    /\ children = <<>>
    /\ pc = "new"
    /\ result = NoResult

----------------------------------------------------------------------------
(* The steps of main() and search_path.                                    *)

\* hastar = HybridAstar(car, grid)
Construct ==
    /\ pc = "new"
    /\ hastar' = HybridAstarInit(car, grid, UnitTheta, Dt, check_dubins)
    /\ pc' = "ready"
    /\ UNCHANGED <<car, grid, check_dubins, heu, extra, nodes, open_, closed_,
                   count, best, shot, children, result>>

\* search_path up to the while loop: the root, closed_ = [], open_ = [root]
SearchStart ==
    /\ pc = "ready"
    /\ LET r0   == ConstructNode(hastar, hastar.start)
           root == [r0 EXCEPT !.g = 0, !.g_ = 0,
                              !.f = 0 + Heuristic(hastar, heu, r0.pos)]
       IN  nodes' = <<root>>
    /\ closed_' = <<>>
    /\ open_' = <<1>>
    /\ count' = 0
    /\ pc' = "loop"
    /\ UNCHANGED <<car, grid, check_dubins, heu, extra, hastar, best, shot,
                   children, result>>

\* one pass of the loop head: count, the best node, open_ -> closed_
Pop ==
    /\ pc = "loop"
    /\ open_ # <<>>
    /\ count' = count + 1
    /\ best' = MinByF(nodes, open_)
    /\ open_' = Remove(nodes, open_, nodes[best'])
    /\ closed_' = Append(closed_, best')
    /\ pc' = "popped"
    /\ UNCHANGED <<car, grid, check_dubins, heu, extra, hastar, nodes, shot,
                   children, result>>

\* `if count % self.check_dubins == 0`: find_tangents and best_tangent from
\* best to the goal give d_route, cost, valid
CheckDubins ==
    /\ pc = "popped"
    /\ CheckDue(hastar, count)
    /\ shot' = Shot(hastar.car, nodes[best].pos)
    /\ pc' = "checked"
    /\ UNCHANGED <<car, grid, check_dubins, heu, extra, hastar, nodes, open_,
                   closed_, count, best, children, result>>

\* the check is not due in this iteration
SkipCheck ==
    /\ pc = "popped"
    /\ ~CheckDue(hastar, count)
    /\ shot' = NoShot
    /\ pc' = "checked"
    /\ UNCHANGED <<car, grid, check_dubins, heu, extra, hastar, nodes, open_,
                   closed_, count, best, children, result>>

\* `if valid`: best_final_shot, backtracking, return path, closed_
FinalShot ==
    /\ pc = "checked"
    /\ shot.valid
    /\ LET fs == BestFinalShot(hastar, nodes, open_, closed_, best,
                               shot.cost, shot.d_route, FinalShotN)
       IN  /\ open_' = fs.open_
           /\ closed_' = fs.closed_
           /\ best' = fs.best
           /\ result' = [kind |-> "path",
                         route |-> Backtracking(nodes, fs.best),
                         d_route |-> fs.d_route,
                         cost |-> fs.cost + nodes[fs.best].g_,
                         best |-> fs.best]
    /\ pc' = "done"
    /\ UNCHANGED <<car, grid, check_dubins, heu, extra, hastar, nodes, count,
                   shot, children>>

\* otherwise: children = get_children(best, heu, extra)
Expand ==
    /\ pc = "checked"
    /\ ~shot.valid
    /\ LET cs == GetChildren(hastar, nodes, best, heu, extra)
       IN  /\ nodes' = nodes \o cs
           /\ children' = [i \in 1..Len(cs) |-> Len(nodes) + i]
           /\ pc' = IF cs = <<>> THEN "loop" ELSE "admit"
    /\ UNCHANGED <<car, grid, check_dubins, heu, extra, hastar, open_, closed_,
                   count, best, shot, result>>

\* one pass of `for child in children`
Admit ==
    /\ pc = "admit"
    /\ children # <<>>
    /\ open_' = AdmitChild(nodes, open_, closed_, Head(children))
    /\ children' = Tail(children)
    /\ pc' = IF Tail(children) = <<>> THEN "loop" ELSE "admit"
    /\ UNCHANGED <<car, grid, check_dubins, heu, extra, hastar, nodes, closed_,
                   count, best, shot, result>>

\* open_ is empty: return None, None
NoPath ==
    /\ pc = "loop"
    /\ open_ = <<>>
    /\ result' = [NoResult EXCEPT !.kind = "none"]
    /\ pc' = "done"
    /\ UNCHANGED <<car, grid, check_dubins, heu, extra, hastar, nodes, open_,
                   closed_, count, best, shot, children>>

Next ==
    \/ Construct
    \/ SearchStart
    \/ Pop
    \/ CheckDubins
    \/ SkipCheck
    \/ FinalShot
    \/ Expand
    \/ Admit
    \/ NoPath

Spec == Init /\ [][Next]_vars

\* search_path is one thread with nothing to wait for: every step that can
\* be taken is taken.  The three steps that call the dubins solver or
\* get_children change pc whenever they are taken, so their weak fairness is
\* written with their enabling condition spelled out.
LightStep == Construct \/ SearchStart \/ Pop \/ SkipCheck \/ Admit \/ NoPath
HeavyStep == CheckDubins \/ FinalShot \/ Expand
HeavyEnabled ==
    \/ pc = "popped" /\ CheckDue(hastar, count)
    \/ pc = "checked"

FairSpec ==
    /\ Spec
    /\ WF_vars(LightStep)
    /\ ([]<>(~HeavyEnabled) \/ []<><<HeavyStep>>_vars)

----------------------------------------------------------------------------
(* Properties.                                                             *)

Range(seq) == {seq[i] : i \in 1..Len(seq)}

\* the DiscreteStates (grid_pos) of the nodes in Open and in Closed
OpenStates == {nodes[id].grid_pos : id \in Range(open_)}
ClosedStates == {nodes[id].grid_pos : id \in Range(closed_)}

\* position of node id in closed_, 0 when it is not there
ClosedAt(id) ==
    IF id \in Range(closed_)
    THEN CHOOSE i \in 1..Len(closed_) : closed_[i] = id ELSE 0

\* no two entries of the list have the same DiscreteState
DistinctStates(list) ==
    \A i, j \in 1..Len(list) :
        i # j => nodes[list[i]].grid_pos # nodes[list[j]].grid_pos

\* C1: once a DiscreteState is in Closed it stays there, it is never in Open
\* again, Closed never holds it twice (it is not popped a second time), and
\* the admission of a child that maps to it leaves Open as it is.
C1_ClosedStateNeverReopened ==
    [][/\ \A d \in ClosedStates : d \in ClosedStates' /\ d \notin OpenStates'
       /\ DistinctStates(closed_)'
       /\ (pc = "admit" /\ nodes[Head(children)].grid_pos \in ClosedStates)
              => open_' = open_]_vars

\* a child was built for a DiscreteState that had been closed before its
\* parent was popped, and it has been looked at and is in neither list
C1_Witness ==
    \E y \in 1..Len(nodes) : \E i \in 1..Len(closed_) :
        /\ nodes[y].grid_pos = nodes[closed_[i]].grid_pos
        /\ nodes[y].parent # 0
        /\ ClosedAt(nodes[y].parent) > i
        /\ y \notin Range(children) \cup Range(closed_) \cup Range(open_)

\* C2: Open holds at most one node per DiscreteState, so does Closed, and no
\* DiscreteState is in both, in every state and after best_final_shot.
C2_MembershipByDiscreteState ==
    /\ DistinctStates(open_)
    /\ DistinctStates(closed_)
    /\ OpenStates \cap ClosedStates = {}

\* best_final_shot has moved a node other than the popped one, and two
\* nodes with different poses and one DiscreteState have been built
C2_Witness ==
    /\ pc = "done" /\ result.kind = "path"
    /\ Len(closed_) = count + 1
    /\ \E x, y \in 1..Len(nodes) :
          /\ nodes[x].grid_pos = nodes[y].grid_pos
          /\ nodes[x].pos # nodes[y].pos
          /\ x \in Range(closed_) \cup Range(open_)

\* the number of DiscreteStates of the workspace
NumDiscreteStates == GridN(grid) * GridN(grid) * Len(GetDiscretizedThetas(UnitTheta))

\* the goal is enclosed: every lattice point next to it collides, and the
\* start is not the goal pose itself
GoalEnclosed ==
    /\ car.start_pos # car.end_pos
    /\ \A dx, dy \in {-1, 0, 1} :
          (dx # 0 \/ dy # 0) =>
              IsCollision(car.obs, <<car.end_pos[1] + dx, car.end_pos[2] + dy>>)

\* C3: every pass of the loop head closes a DiscreteState that was not
\* closed before, so count never exceeds the number of DiscreteStates;
\* search_path returns; and when the goal is enclosed it returns the no-path
\* result with Open empty.
C3_SearchTerminates ==
    /\ [][(pc = "loop" /\ open_ # <<>>) =>
              /\ nodes[best'].grid_pos \notin ClosedStates
              /\ ClosedStates' = ClosedStates \cup {nodes[best'].grid_pos}
              /\ count' = count + 1]_vars
    /\ [](count <= NumDiscreteStates /\ count <= Len(closed_))
    /\ <>(pc = "done")
    /\ (GoalEnclosed => <>(pc = "done" /\ result.kind = "none" /\ open_ = <<>>))

\* the search of an enclosed goal has ended with no path after closing
\* several DiscreteStates
C3_Witness ==
    /\ GoalEnclosed
    /\ pc = "done" /\ result.kind = "none" /\ open_ = <<>>
    /\ count >= 8

\* what the dubins solver answers for the pose of node id
Connection(id) ==
    BestTangent(car, nodes[id].pos, FindTangents(car, nodes[id].pos, car.end_pos))

\* C4 as claimed: a no-path result means that no popped node (all of them
\* are in Closed) had a valid connection to the goal.
C4_NoPathMeansNoPoppedNodeConnects ==
    (pc = "done" /\ result.kind = "none") =>
        \A i \in 1..Len(closed_) : ~Connection(closed_[i]).valid

\* C4, amended: a no-path result is returned with Open empty, and then no
\* node popped in an iteration that is a multiple of check_dubins had a
\* valid connection to the goal.
C4_NoPathMeansNoCheckedNodeConnects ==
    (pc = "done" /\ result.kind = "none") =>
        /\ open_ = <<>>
        /\ Len(closed_) = count
        /\ \A i \in 1..Len(closed_) :
               i % check_dubins = 0 => ~Connection(closed_[i]).valid

\* a search with check_dubins = 2 has ended with no path after several
\* checks
C4_Witness ==
    /\ pc = "done" /\ result.kind = "none"
    /\ check_dubins = 2 /\ count >= 4

\* the connection from the start pose to the goal
DirectConnection ==
    BestTangent(car, car.start_pos, FindTangents(car, car.start_pos, car.end_pos))

\* C5: with check_dubins = 1 and a valid connection from the start pose,
\* the search never goes beyond its first iteration and builds no node but
\* the root; it returns a path whose terminal node is the root, with Closed
\* = [root], an empty backtracked route and the length of the connection
\* alone, which is zero when the start pose is the goal pose.
C5_DirectShortcutFirstIteration ==
    (pc \notin {"new", "ready"} /\ check_dubins = 1 /\ DirectConnection.valid) =>
        /\ count <= 1
        /\ Len(nodes) = 1
        /\ pc # "admit"
        /\ pc = "done" =>
              /\ result.kind = "path"
              /\ count = 1
              /\ result.best = 1
              /\ closed_ = <<1>>
              /\ open_ = <<>>
              /\ result.route = <<>>
              /\ result.d_route = DirectConnection.d_route
              /\ result.cost = DirectConnection.cost
              /\ car.start_pos = car.end_pos => result.cost = 0

\* the search has returned for a start pose that connects to another goal
C5_Witness ==
    /\ pc = "done" /\ check_dubins = 1
    /\ car.start_pos # car.end_pos
    /\ DirectConnection.valid /\ DirectConnection.cost > 0

\* C6: the root has g = g_ = 0; every other node has g_ = parent.g_ + arc
\* and g >= parent.g; no g or g_ is negative.  This covers every node ever
\* built, also the ones that relaxation has removed from Open.
C6_CostsAlongParentChains ==
    \A id \in 1..Len(nodes) :
        LET n == nodes[id]
        IN  /\ n.g >= 0 /\ n.g_ >= 0
            /\ n.parent = 0 => (id = 1 /\ n.g = 0 /\ n.g_ = 0)
            /\ n.parent # 0 =>
                  /\ n.parent \in 1..(id - 1)
                  /\ n.g_ = nodes[n.parent].g_ + hastar.drive_steps * hastar.dt * Scale
                  /\ n.g >= nodes[n.parent].g

\* with extra costs, an Open entry has replaced an older node of its
\* DiscreteState, and a grandchild of the root exists
C6_Witness ==
    /\ extra
    /\ \E i \in 1..Len(open_) : \E y \in 1..Len(nodes) :
          /\ y < open_[i]
          /\ nodes[y].grid_pos = nodes[open_[i]].grid_pos
          /\ nodes[y].g > nodes[open_[i]].g
    /\ \E id \in 1..Len(nodes) :
          nodes[id].parent # 0 /\ nodes[nodes[id].parent].parent # 0

\* the Open nodes that come first when Open is put in ascending order of f,
\* entries of equal f in their list order: the n first of them
LowestF(n) ==
    {open_[i] : i \in {i \in 1..Len(open_) :
        Cardinality({j \in 1..Len(open_) :
            \/ nodes[open_[j]].f < nodes[open_[i]].f
            \/ nodes[open_[j]].f = nodes[open_[i]].f /\ j < i}) < n}}

\* shortcut length plus arc length travelled, for node id
TotalLength(id) == Connection(id).cost + nodes[id].g_

\* the nodes that best_final_shot chooses among: the popped node and the
\* nodes of LowestF(n) with a valid connection
FinalShotCandidates ==
    {best} \cup {id \in LowestF(FinalShotN) : Connection(id).valid}

\* C7: the step that returns a path picks a terminal node of least
\* (shortcut length + g_) among the popped node and the at most n lowest-f
\* Open nodes with a valid shortcut; the route and length returned are those
\* of the connection of that node; that node is in Closed once and not in
\* Open, and Open keeps every other node.
C7_BestFinalShotMinimizes ==
    [][(pc = "checked" /\ shot.valid) =>
          LET chosen == result'.best
          IN  /\ result'.kind = "path"
              /\ chosen \in FinalShotCandidates
              /\ \A id \in FinalShotCandidates :
                     TotalLength(chosen) <= TotalLength(id)
              /\ result'.d_route = Connection(chosen).d_route
              /\ result'.cost = TotalLength(chosen)
              /\ Cardinality({i \in 1..Len(closed_') : closed_'[i] = chosen}) = 1
              /\ chosen \notin Range(open_')
              /\ Range(open_') = Range(open_) \ {chosen}
              /\ Len(open_') = Cardinality(Range(open_'))]_vars

\* best_final_shot has preferred one of the n lowest-f Open nodes to the
\* popped one, while Open held more than n nodes and keeps a node beyond the
\* n lowest-f whose connection would have given a shorter total length
C7_Witness ==
    /\ pc = "done" /\ result.kind = "path"
    /\ 4 * car.max_phi < NumHeadings
    /\ result.best # closed_[count]
    /\ result.best = closed_[Len(closed_)]
    /\ Len(open_) >= FinalShotN
    /\ \E i \in 1..Len(open_) :
          Connection(open_[i]).valid /\ TotalLength(open_[i]) < result.cost

\* the offsets of the pose of node id from the goal
GoalDx(id) == car.end_pos[1] - nodes[id].pos[1]
GoalDy(id) == car.end_pos[2] - nodes[id].pos[2]
SquaredDistance(id) == GoalDx(id) * GoalDx(id) + GoalDy(id) * GoalDy(id)

\* what f adds to g for node id
AddedToG(id) == nodes[id].f - nodes[id].g

\* w1 * distanceToGoal * cellSize for node id, as a multiple of 1/Scale
GridTerm(id) ==
    W1 * DistanceToGoal(grid, <<car.end_pos[1], car.end_pos[2]>>, nodes[id].pos)
       * grid.cell_size

\* C8 as claimed: f - g is the straight-line distance to the goal in the
\* straight-line mode, and the grid term plus w2 times the straight-line
\* distance in the grid mode (both compared by their squares).
C8_HeuristicIsStraightLine ==
    \A id \in 1..Len(nodes) :
        /\ heu = 0 => AddedToG(id) * AddedToG(id)
                          = Scale * Scale * SquaredDistance(id)
        /\ heu = 1 => (AddedToG(id) - GridTerm(id)) * (AddedToG(id) - GridTerm(id))
                          = W2 * W2 * SquaredDistance(id)

\* C8, amended: the distance in both modes is the Manhattan distance
\* |dx| + |dy| from the pose to the goal, which is never less than the
\* straight-line distance.
C8_HeuristicIsManhattan ==
    \A id \in 1..Len(nodes) :
        LET m == Abs(GoalDx(id)) + Abs(GoalDy(id))
        IN  /\ heu = 0 => AddedToG(id) = m * Scale
            /\ heu = 1 => AddedToG(id) = GridTerm(id) + W2 * m
            /\ m * m >= SquaredDistance(id)

\* in the straight-line mode a child has been built at a pose that is off
\* the goal in both x and y
C8_Witness ==
    /\ heu = 0
    /\ \E id \in 2..Len(nodes) : GoalDx(id) # 0 /\ GoalDy(id) # 0

\* a configuration that is to be rejected: max_phi of a quarter turn or
\* more, or a cell size of zero or less
InvalidConfiguration ==
    \/ 4 * car.max_phi >= NumHeadings
    \/ grid.cell_size <= 0

\* C9 as claimed: an invalid configuration is rejected at construction, so
\* that no iteration of the search loop ever runs with it.
C9_InvalidConfigurationNeverSearched ==
    InvalidConfiguration => count = 0

\* C10: the step at the loop head pops the first Open node of least f and
\* puts it at the end of Closed, building no node and attempting no
\* shortcut; from then on, through the shortcut check and the expansion of
\* that iteration, the popped node is the last of Closed and not in Open.
C10_PopsFirstMinimalF ==
    /\ [][(pc = "loop" /\ open_ # <<>>) =>
              \E i \in 1..Len(open_) :
                  /\ best' = open_[i]
                  /\ \A j \in 1..Len(open_) :
                         nodes[open_[i]].f <= nodes[open_[j]].f
                  /\ \A j \in 1..(i - 1) :
                         nodes[open_[j]].f > nodes[open_[i]].f
                  /\ closed_' = Append(closed_, open_[i])
                  /\ open_' = SubSeq(open_, 1, i - 1)
                                  \o SubSeq(open_, i + 1, Len(open_))
                  /\ nodes' = nodes /\ shot' = shot /\ pc' = "popped"]_vars
    /\ [](pc \in {"popped", "checked", "admit"} =>
              /\ closed_[Len(closed_)] = best
              /\ best \notin Range(open_))

\* a node has been popped while a later Open node had the same f
C10_Witness ==
    /\ pc = "popped"
    /\ \E i \in 1..Len(open_) : nodes[open_[i]].f = nodes[best].f

\* the g of the Open node of DiscreteState d
RecordedG(d) == nodes[CHOOSE id \in Range(open_) : nodes[id].grid_pos = d].g

\* the nodes of DiscreteState d that have been offered to Open so far: the
\* root, and the children that the admission loop has looked at
Offered(d) ==
    {y \in 1..Len(nodes) : nodes[y].grid_pos = d /\ y \notin Range(children)}

\* C11: the admission of a child whose DiscreteState is not in Closed
\* appends it when Open has no node of that DiscreteState, puts it in the
\* place of that node exactly when its g is strictly smaller, and leaves
\* Open as it is otherwise; while a DiscreteState stays in Open its recorded
\* g never increases and is the least g of the nodes offered for it.
C11_AdmissionRelaxes ==
    /\ [][(pc = "admit" /\ nodes[Head(children)].grid_pos \notin ClosedStates) =>
              LET c    == Head(children)
                  same == {id \in Range(open_) :
                              nodes[id].grid_pos = nodes[c].grid_pos}
              IN  /\ same = {} => open_' = Append(open_, c)
                  /\ \A old \in same :
                         IF nodes[c].g < nodes[old].g
                         THEN /\ Range(open_') = (Range(open_) \ {old}) \cup {c}
                              /\ Len(open_') = Len(open_)
                         ELSE open_' = open_]_vars
    /\ [][\A d \in OpenStates \cap OpenStates' : RecordedG(d)' <= RecordedG(d)]_vars
    /\ [](\A d \in OpenStates :
              /\ \A y \in Offered(d) : RecordedG(d) <= nodes[y].g
              /\ \E y \in Offered(d) : RecordedG(d) = nodes[y].g)

\* an Open node has replaced a node of larger g, and a child of the same g
\* as the Open node of its DiscreteState has been looked at and discarded
C11_Witness ==
    /\ \E x \in Range(open_) : \E y \in 1..(x - 1) :
          /\ nodes[y].grid_pos = nodes[x].grid_pos
          /\ nodes[y].g > nodes[x].g
    /\ \E x \in Range(open_) : \E z \in (x + 1)..Len(nodes) :
          /\ z \notin Range(children)
          /\ nodes[z].grid_pos = nodes[x].grid_pos
          /\ nodes[z].g = nodes[x].g

\* the arc from pose `from` under steering phi passes the check that
\* matches phi: the straight check for 0, the turning check otherwise
PassesMatchingCheck(from, phi) ==
    LET end == ArcEnd(hastar, from, phi)
    IN  IF phi = 0 THEN IsStraightRouteSafe(car, from, end)
        ELSE IsTurningRouteSafe(car, from, end,
                                GetParams(from, phi).d, GetParams(from, phi).r)

\* the steering inputs whose arc from node id passes its check
SafeInputs(id) ==
    {k \in 1..Len(hastar.phil) : PassesMatchingCheck(nodes[id].pos, hastar.phil[k])}

\* the strict ancestors of node id along the parent links
RECURSIVE Ancestors(_)
Ancestors(id) ==
    IF nodes[id].parent = 0 THEN {}
    ELSE {nodes[id].parent} \cup Ancestors(nodes[id].parent)

\* C12: every node of Open or Closed but the root is the end of an arc from
\* its parent's pose that passed the matching safety check; get_children
\* builds one node per safe arc and none for an arc that fails, leaves Open
\* and Closed as they are and goes on; every entry of a returned route is
\* the end of a safe arc from the pose before it.
C12_OnlySafeArcsBecomeNodes ==
    /\ [](\A id \in Range(open_) \cup Range(closed_) :
              nodes[id].parent # 0 =>
                  /\ PassesMatchingCheck(nodes[nodes[id].parent].pos, nodes[id].phi)
                  /\ nodes[id].pos = ArcEnd(hastar, nodes[nodes[id].parent].pos,
                                            nodes[id].phi))
    /\ [][(pc = "checked" /\ ~shot.valid) =>
              /\ Len(nodes') = Len(nodes) + Cardinality(SafeInputs(best))
              /\ SubSeq(nodes', 1, Len(nodes)) = nodes
              /\ \A k \in 1..Len(hastar.phil) :
                     k \notin SafeInputs(best) =>
                         \A id \in (Len(nodes) + 1)..Len(nodes') :
                             nodes'[id].phi # hastar.phil[k]
              /\ open_' = open_ /\ closed_' = closed_
              /\ pc' \in {"admit", "loop"}]_vars
    /\ [](result.kind = "path" =>
              \A i \in 1..Len(result.route) :
                  LET from == IF i = 1 THEN car.start_pos
                              ELSE result.route[i - 1][1]
                  IN  /\ PassesMatchingCheck(from, result.route[i][2])
                      /\ result.route[i][1]
                             = ArcEnd(hastar, from, result.route[i][2]))

\* a path has been returned through a node that had an arc failing its
\* check when it was expanded
C12_Witness ==
    /\ pc = "done" /\ result.kind = "path"
    /\ 4 * car.max_phi < NumHeadings
    /\ \E a \in Ancestors(result.best) :
          Cardinality(SafeInputs(a)) < Len(hastar.phil)

\* the length of one arc, and the two penalties, as multiples of 1/Scale
ArcLength == hastar.drive_steps * hastar.dt * Scale
SteeringChangePenalty == (W3 * ArcLength) \div Scale
TurningPenalty == (W4 * ArcLength) \div Scale

\* C13: every child has g = parent.g + arcLength, plus w3 * arcLength when
\* extra costs are on and its steering differs from its parent's (0 for
\* the root), plus w4 * arcLength when extra costs are on and its steering
\* is not 0; without extra costs g = g_ for every node, with them g >= g_.
C13_ChildCost ==
    \A id \in 1..Len(nodes) :
        LET n == nodes[id]
        IN  /\ n.parent # 0 =>
                  n.g = nodes[n.parent].g + ArcLength
                        + (IF extra /\ n.phi # nodes[n.parent].phi
                           THEN SteeringChangePenalty ELSE 0)
                        + (IF extra /\ n.phi # 0 THEN TurningPenalty ELSE 0)
            /\ n.parent = 0 => n.phi = 0
            /\ ~extra => n.g = n.g_
            /\ extra => n.g >= n.g_

\* with extra costs, a child has kept the non-zero steering of its parent
\* (turning penalty alone), another has gone straight after a turn (change
\* penalty alone), and another has changed to a turn (both)
C13_Witness ==
    /\ extra /\ pc = "loop"
    /\ SteeringChangePenalty > 0 /\ TurningPenalty > 0
    /\ \E id \in 2..Len(nodes) :
          nodes[id].phi # 0 /\ nodes[id].phi = nodes[nodes[id].parent].phi
    /\ \E id \in 2..Len(nodes) :
          nodes[id].phi = 0 /\ nodes[nodes[id].parent].phi # 0
    /\ \E id \in 2..Len(nodes) :
          nodes[id].phi # 0 /\ nodes[id].phi # nodes[nodes[id].parent].phi

\* C14: the root is the only node without a parent; every other node of
\* Open or Closed has a parent that is in Closed and was built before it,
\* and its parent chain ends at the root without meeting the node again;
\* a returned route has node.g_ / arcLength entries, the i-th being the
\* (pose, steering) of the chain node i arcs away from the root, the
\* terminal node last and the root left out.
C14_ParentLinksFormTree ==
    /\ \A id \in Range(open_) \cup Range(closed_) :
          /\ nodes[id].parent = 0 <=> id = 1
          /\ nodes[id].parent # 0 =>
                /\ nodes[id].parent \in Range(closed_)
                /\ nodes[id].parent \in 1..(id - 1)
                /\ 1 \in Ancestors(id)
                /\ id \notin Ancestors(id)
                /\ Cardinality(Ancestors(id)) * ArcLength = nodes[id].g_
    /\ result.kind = "path" =>
          LET chain == Ancestors(result.best) \cup {result.best}
          IN  /\ Len(result.route) * ArcLength = nodes[result.best].g_
              /\ \A i \in 1..Len(result.route) :
                     \E a \in chain :
                         /\ nodes[a].g_ = i * ArcLength
                         /\ result.route[i] = <<nodes[a].pos, nodes[a].phi>>
                         /\ i = Len(result.route) <=> a = result.best

\* a path has been returned whose terminal node, three arcs or more from
\* the root, was taken from Open by best_final_shot
C14_Witness ==
    /\ pc = "done" /\ result.kind = "path"
    /\ 4 * car.max_phi < NumHeadings
    /\ Len(result.route) >= 3
    /\ result.best # closed_[count]

\* C15: in iteration count the connection from the popped node to the goal
\* is computed when count is a multiple of check_dubins and no connection
\* is looked at otherwise; a valid connection ends the search in that
\* iteration with a path and without building a node; a path is returned
\* only in an iteration that is a multiple of check_dubins, and then
\* neither the popped node nor the terminal node has a child.
C15_ShortcutEveryKthIteration ==
    /\ [][pc = "popped" =>
              /\ shot' = IF count % check_dubins = 0
                         THEN Connection(best) ELSE NoShot
              /\ nodes' = nodes /\ open_' = open_ /\ closed_' = closed_
              /\ pc' = "checked"]_vars
    /\ [][(pc = "checked" /\ shot.valid) =>
              /\ pc' = "done" /\ result'.kind = "path"
              /\ count' = count
              /\ nodes' = nodes /\ children' = <<>>]_vars
    /\ [][(pc = "checked" /\ ~shot.valid) => pc' \in {"admit", "loop"}]_vars
    /\ []((pc = "done" /\ result.kind = "path") =>
              /\ count % check_dubins = 0
              /\ children = <<>>
              /\ \A id \in 1..Len(nodes) :
                     nodes[id].parent \notin {closed_[count], result.best})

\* with check_dubins = 2 a path has been returned in a later iteration
\* than one whose popped node had a valid connection that was not looked at
C15_Witness ==
    /\ pc = "done" /\ result.kind = "path"
    /\ check_dubins = 2 /\ count >= 4
    /\ 4 * car.max_phi < NumHeadings
    /\ \E i \in 1..count : i % 2 = 1 /\ Connection(closed_[i]).valid

====
